---------------------------- MODULE Spec2Model ----------------------------
(***************************************************************************)
(* A model of the NATS schema registry (schema_registry.go): the KV-backed *)
(* schema cache kept current by Watch, the CRUD handlers, the validation   *)
(* handler ValidatePayload and the subject matcher SubjectsMatch.          *)
(*                                                                         *)
(* Strings that the code splits on "." are sequences of chunks: a chunk is *)
(* either the separator "." or a maximal dot-free, non-empty piece of      *)
(* text.  "foo.bar" is <<"foo", ".", "bar">>, "" is << >> and "a." is      *)
(* <<"a", ".">>.  Two strings are equal iff their chunk sequences are.     *)
(***************************************************************************)
EXTENDS Naturals, Sequences, FiniteSets

(***************************************************************************)
(* Bounds of the model.                                                    *)
(***************************************************************************)
\* events from outside the registry: the requests that clients send, of all
\* kinds together, and the cancellation of the context given to Watch
MaxEvents == 3
\* tokens of the literal and of the pattern in the matcher's own specification
MaxTokens == 3

(***************************************************************************)
(* strings.Split(s, ".") and strings.Join(parts, ".") on chunk sequences.  *)
(***************************************************************************)
Dot == "."

RECURSIVE Split(_)
Split(s) ==
    IF Len(s) = 0 THEN <<"">>
    ELSE IF Head(s) = Dot THEN <<"">> \o Split(Tail(s))
    ELSE IF Len(s) = 1 THEN <<Head(s)>>
    ELSE <<Head(s)>> \o Split(SubSeq(s, 3, Len(s)))

Chunk(t) == IF t = "" THEN << >> ELSE <<t>>

RECURSIVE Join(_)
Join(parts) ==
    IF Len(parts) = 0 THEN << >>
    ELSE IF Len(parts) = 1 THEN Chunk(parts[1])
    ELSE Chunk(parts[1]) \o <<Dot>> \o Join(Tail(parts))

(***************************************************************************)
(* SubjectsMatch(literal, wildcard): the loop over wparts, from index i    *)
(* (1-based here, 0-based in the code).                                    *)
(***************************************************************************)
\* the loop without its case for "*"
RECURSIVE MatchFromNoStar(_, _, _)
MatchFromNoStar(lparts, wparts, i) ==
    IF i > Len(wparts) THEN TRUE
    ELSE IF Len(lparts) < i THEN FALSE
    ELSE IF wparts[i] = ">" THEN TRUE
    ELSE IF lparts[i] # wparts[i] THEN FALSE
    ELSE MatchFromNoStar(lparts, wparts, i + 1)

\* a walk that takes ">" as the full wildcard only where it is the last token
RECURSIVE MatchFromFullWildcardLast(_, _, _)
MatchFromFullWildcardLast(lparts, wparts, i) ==
    IF i > Len(wparts) THEN TRUE
    ELSE IF Len(lparts) < i THEN FALSE
    ELSE IF wparts[i] = "*" THEN MatchFromFullWildcardLast(lparts, wparts, i + 1)
    ELSE IF wparts[i] = ">" /\ i = Len(wparts) THEN TRUE
    ELSE IF lparts[i] # wparts[i] THEN FALSE
    ELSE MatchFromFullWildcardLast(lparts, wparts, i + 1)

RECURSIVE MatchFrom(_, _, _)
MatchFrom(lparts, wparts, i) ==
    IF i > Len(wparts) THEN TRUE
    ELSE IF Len(lparts) < i THEN FALSE
    ELSE IF wparts[i] = "*" THEN MatchFrom(lparts, wparts, i + 1)
    ELSE IF wparts[i] = ">" THEN TRUE
    ELSE IF lparts[i] # wparts[i] THEN FALSE
    ELSE MatchFrom(lparts, wparts, i + 1)

SubjectsMatch(literal, wildcard) ==
    IF literal = wildcard THEN TRUE
    ELSE MatchFrom(Split(literal), Split(wildcard), 1)

(***************************************************************************)
(* The Schema struct and its JSON encoding.  A JSON document is a function *)
(* from the keys it holds to their values; bytes that are no JSON document *)
(* of a Schema (and the empty value of a delete marker) fail to decode.    *)
(***************************************************************************)
ZeroSchema == [Name |-> "", Subject |-> << >>, Revision |-> 0, Type |-> "", Body |-> ""]

EmptyBytes == [kind |-> "empty"]
GarbageBytes == [kind |-> "garbage"]
JsonBytes(doc) == [kind |-> "json", doc |-> doc]

JsonKeys == {"name", "subject", "revision", "type", "body"}

JsonValue(schema, key) ==
    CASE key = "name" -> schema.Name
      [] key = "subject" -> schema.Subject
      [] key = "revision" -> schema.Revision
      [] key = "type" -> schema.Type
      [] key = "body" -> schema.Body

\* json.Marshal(schema): "revision" is omitempty
Marshal(schema) ==
    JsonBytes([key \in (IF schema.Revision = 0 THEN JsonKeys \ {"revision"} ELSE JsonKeys)
                  |-> JsonValue(schema, key)])

\* json.Unmarshal(data, &schema): the keys present overwrite the fields of into
Unmarshal(data, into) ==
    IF data.kind # "json"
    THEN [err |-> "unexpected end of JSON input", schema |-> into]
    ELSE [err |-> "",
          schema |-> [Name |-> IF "name" \in DOMAIN data.doc THEN data.doc["name"] ELSE into.Name,
                      Subject |-> IF "subject" \in DOMAIN data.doc THEN data.doc["subject"] ELSE into.Subject,
                      Revision |-> IF "revision" \in DOMAIN data.doc THEN data.doc["revision"] ELSE into.Revision,
                      Type |-> IF "type" \in DOMAIN data.doc THEN data.doc["type"] ELSE into.Type,
                      Body |-> IF "body" \in DOMAIN data.doc THEN data.doc["body"] ELSE into.Body]]

\* fmt.Sprintf("%d", n)
DigitChars == <<"0", "1", "2", "3", "4", "5", "6", "7", "8", "9">>

RECURSIVE FormatUint(_)
FormatUint(n) ==
    IF n < 10 THEN DigitChars[n + 1]
    ELSE FormatUint(n \div 10) \o DigitChars[(n % 10) + 1]

(***************************************************************************)
(* The requests of the model.                                              *)
(***************************************************************************)
\* schema names: the last token of $SCHEMA.<OP>.<name>
Names == {"my_cool_schema", "other_schema"}

\* a revision a client writes into the body it sends: never one the store assigns
ClientRevision == 9

NumbersDoc ==
    [subject |-> <<"numbers", Dot, ">">>, type |-> "jsonschema", body |-> "number"]

StringsDoc ==
    [name |-> "spoofed", subject |-> <<"numbers", Dot, "*">>, revision |-> ClientRevision,
     type |-> "jsonschema", body |-> "string"]

RequestData == {JsonBytes(NumbersDoc), JsonBytes(StringsDoc), GarbageBytes}

RequestSubject(op, name) == <<"$SCHEMA", Dot, op, Dot, name>>

NilHeader == [k \in {} |-> ""]
TraceHeader == [k \in {"Trace-Id"} |-> "t1"]

ValidateSubject(governed) == <<"$SCHEMA", Dot, "VALIDATE", Dot>> \o governed

Msg(governed, data, header) ==
    [Subject |-> ValidateSubject(governed), Data |-> data, Reply |-> "_INBOX.caller",
     Header |-> header]

\* the validation requests: a number and a non-number on numbers.foobar, a
\* number one level deeper, and a number on a subject no schema governs
Msgs ==
    { Msg(<<"numbers", Dot, "foobar">>, "1", NilHeader),
      Msg(<<"numbers", Dot, "foobar">>, "abc", TraceHeader),
      Msg(<<"numbers", Dot, "foo", Dot, "bar">>, "1", TraceHeader),
      Msg(<<"letters", Dot, "foobar">>, "1", NilHeader) }

\* gojsonschema.Validate(schemaBody, dataBody) of validate(): "" when the payload
\* is valid, else the text of the error that validate returns
validate(data, schema) ==
    IF schema.Body \notin {"number", "string"} THEN "invalid schema"
    ELSE IF data # "1" THEN "invalid character 'a' looking for beginning of value"
    ELSE IF schema.Body = "string"
         THEN "invalid payload: (root): Invalid type. Expected: string, given: integer"
    ELSE ""

(***************************************************************************)
(* State.                                                                  *)
(***************************************************************************)
VARIABLES
    store,        \* the KV bucket: per key, its latest entry
    seq,          \* the bucket's stream sequence: the last revision assigned
    feed,         \* per key, the entries WatchAll has still to deliver, oldest first
    initMarker,   \* the nil entry that ends the initial replay is still to come
    schemas,      \* reg.schemas: the cache, a map from name to Schema
    watchPc,      \* the Watch goroutine: "select", "lock", "writing", "done"
    watchSchema,  \* its local variable schema
    cancelled,    \* c.Done() is closed
    fatal,        \* the runtime has thrown "concurrent map read and map write"
    getPc,        \* the GetSchema handler: "idle", "reading"
    getName,      \* its local variable name
    getSeq,       \* the sequence of the store when the request arrived
    getRace,      \* the map write its read of reg.schemas has overlapped, if any
    getReply,     \* the response to the last Get request
    valPc,        \* the ValidatePayload handler: "idle", "scan", "send"
    valMsg,       \* its argument m
    valOrder,     \* the order in which its range loop meets the names of reg.schemas
    valSchema,    \* the schema its scan has selected
    valOp,        \* the transport call it is about to make
    published,    \* messages nc.PublishMsg has sent for the current request
    replied,      \* payloads m.Respond has sent for the current request
    events,       \* requests taken from the endpoints and the subscription, and
                  \* cancellations
    crudReply,    \* the last Register, Update or Unregister request, whether its
                  \* store call failed, and its response
    taken,        \* per key, the feed entries the Watch loop has taken, oldest first
    mLiteral,     \* the matcher's own specification: its arguments,
    mWildcard,
    mDone,        \* whether it has been called,
    mResult       \* and what it returned

regVars == <<events, store, seq, feed, initMarker, schemas, watchPc, watchSchema, cancelled,
             fatal, getPc, getName, getSeq, getRace, getReply, valPc, valMsg, valOrder, valSchema,
             valOp, published, replied, crudReply, taken>>
matchVars == <<mLiteral, mWildcard, mDone, mResult>>
vars == <<regVars, matchVars>>

NoEntry == [op |-> "NONE"]
NoSchema == [none |-> TRUE]
NoRace == [raced |-> FALSE]
NoReply == [kind |-> "none"]
NoOp == [call |-> "none"]
NoMsg == [none |-> TRUE]

(***************************************************************************)
(* The KV bucket (nats.KeyValue).  Every write takes the next stream       *)
(* sequence as its revision and is handed to the watcher of the key.       *)
(* fail: the call fails for a reason of the store or the connection.       *)
(***************************************************************************)
ErrKeyExists == "nats: key exists"
ErrStorage == "nats: timeout"

KvWrite(key, entry) ==
    [err |-> "", revision |-> seq + 1,
     store |-> [store EXCEPT ![key] = entry],
     feed |-> [feed EXCEPT ![key] = Append(@, entry)]]

KvFailed(err) == [err |-> err, revision |-> 0, store |-> store, feed |-> feed]

\* a create that does not look for a live entry
KvCreateOverwrite(key, value, fail) ==
    IF fail THEN KvFailed(ErrStorage)
    ELSE KvWrite(key, [op |-> "PUT", key |-> key, value |-> value, revision |-> seq + 1])

\* kv.Create(key, value): only if the key has no live entry
KvCreate(key, value, fail) ==
    IF fail THEN KvFailed(ErrStorage)
    ELSE IF store[key].op = "PUT" THEN KvFailed(ErrKeyExists)
    ELSE KvWrite(key, [op |-> "PUT", key |-> key, value |-> value, revision |-> seq + 1])

\* kv.Put(key, value)
KvPut(key, value, fail) ==
    IF fail THEN KvFailed(ErrStorage)
    ELSE KvWrite(key, [op |-> "PUT", key |-> key, value |-> value, revision |-> seq + 1])

\* kv.Delete(key): a delete marker, with no value
KvDelete(key, fail) ==
    IF fail THEN KvFailed(ErrStorage)
    ELSE KvWrite(key, [op |-> "DEL", key |-> key, value |-> EmptyBytes, revision |-> seq + 1])

\* micro.Request: r.Error(code, description, nil), r.RespondJSON(v), r.Respond(nil)
Error(code, description) == [kind |-> "error", code |-> code, description |-> description]
RespondJSON(schema) == [kind |-> "json", data |-> Marshal(schema)]
Respond(data) == [kind |-> "data", data |-> data]

\* parts[len(parts)-1] of strings.Split(r.Subject(), ".")
LastToken(subject) == Split(subject)[Len(Split(subject))]

(***************************************************************************)
(* The Registration handlers.  Each runs on its endpoint's own goroutine   *)
(* and touches the bucket in one call.                                     *)
(***************************************************************************)
crudUnchanged ==
    UNCHANGED <<initMarker, schemas, watchPc, watchSchema, cancelled, fatal, getPc,
                getName, getSeq, getRace, getReply, valPc, valMsg, valOrder, valSchema, valOp,
                published, replied, taken, matchVars>>

\* the decoded body under a schema name that is not the one of the request subject
NamedSchemaOtherName(subject, data) ==
    [Unmarshal(data, ZeroSchema).schema
        EXCEPT !.Name = CHOOSE n \in Names : n # LastToken(subject)]

\* the decoded body with the name of the request subject: lines 87-96 and 146-155
NamedSchema(subject, data) ==
    [Unmarshal(data, ZeroSchema).schema EXCEPT !.Name = LastToken(subject)]

RegisterSchema(name, data, fail) ==
    LET subject == RequestSubject("REGISTER", name)
        decoded == Unmarshal(data, ZeroSchema)
        schema  == NamedSchema(subject, data)
        created == KvCreate(schema.Name, Marshal(schema), fail)
    IN  /\ ~fatal
        /\ events < MaxEvents
        /\ events' = events + 1
        /\ IF decoded.err # ""
           THEN /\ crudReply' = [op |-> "REGISTER", name |-> name, data |-> data, fail |-> fail,
                                 reply |-> Error("400", decoded.err)]
                /\ UNCHANGED <<store, seq, feed>>
           ELSE IF created.err # ""
           THEN /\ crudReply' = [op |-> "REGISTER", name |-> name, data |-> data, fail |-> fail,
                                 reply |-> Error("500", created.err)]
                /\ UNCHANGED <<store, seq, feed>>
           ELSE /\ store' = created.store
                /\ feed' = created.feed
                /\ seq' = created.revision
                /\ crudReply' = [op |-> "REGISTER", name |-> name, data |-> data, fail |-> fail,
                                 reply |-> RespondJSON([schema EXCEPT !.Revision = created.revision])]
        /\ crudUnchanged

UpdateSchema(name, data, fail) ==
    LET subject == RequestSubject("UPDATE", name)
        decoded == Unmarshal(data, ZeroSchema)
        schema  == NamedSchema(subject, data)
        put     == KvPut(schema.Name, Marshal(schema), fail)
    IN  /\ ~fatal
        /\ events < MaxEvents
        /\ events' = events + 1
        /\ IF decoded.err # ""
           THEN /\ crudReply' = [op |-> "UPDATE", name |-> name, data |-> data, fail |-> fail,
                                 reply |-> Error("400", decoded.err)]
                /\ UNCHANGED <<store, seq, feed>>
           ELSE IF put.err # ""
           THEN /\ crudReply' = [op |-> "UPDATE", name |-> name, data |-> data, fail |-> fail,
                                 reply |-> Error("500", put.err)]
                /\ UNCHANGED <<store, seq, feed>>
           ELSE /\ store' = put.store
                /\ feed' = put.feed
                /\ seq' = put.revision
                /\ crudReply' = [op |-> "UPDATE", name |-> name, data |-> data, fail |-> fail,
                                 reply |-> RespondJSON([schema EXCEPT !.Revision = put.revision])]
        /\ crudUnchanged

UnregisterSchema(name, fail) ==
    LET subject == RequestSubject("UNREGISTER", name)
        deleted == KvDelete(LastToken(subject), fail)
    IN  /\ ~fatal
        /\ events < MaxEvents
        /\ events' = events + 1
        /\ IF deleted.err # ""
           THEN /\ crudReply' = [op |-> "UNREGISTER", name |-> name, data |-> EmptyBytes, fail |-> fail,
                                 reply |-> Error("500", deleted.err)]
                /\ UNCHANGED <<store, seq, feed>>
           ELSE /\ store' = deleted.store
                /\ feed' = deleted.feed
                /\ seq' = deleted.revision
                /\ crudReply' = [op |-> "UNREGISTER", name |-> name, data |-> EmptyBytes, fail |-> fail,
                                 reply |-> Respond(EmptyBytes)]
        /\ crudUnchanged

(***************************************************************************)
(* Watch: the goroutine that drains watcher.Updates() into reg.schemas.    *)
(* The feed hands over the entries of one key in the order of their        *)
(* revisions; entries of different keys come in any order.                 *)
(***************************************************************************)
watchUnchanged ==
    UNCHANGED <<events, store, seq, getPc, getName, getSeq, getReply, valPc, valMsg, valOrder, valSchema,
                valOp, published, replied, crudReply, matchVars>>

\* entry == nil: "Loaded initial schemas", continue
WatchInitialDone ==
    /\ ~fatal
    /\ watchPc = "select"
    /\ initMarker
    /\ initMarker' = FALSE
    /\ UNCHANGED <<feed, schemas, watchPc, watchSchema, cancelled, fatal, getRace, taken>>
    /\ watchUnchanged

\* the decoded entry with the revision its payload carries
EntrySchemaPayloadRevision(entry) == Unmarshal(entry.value, ZeroSchema).schema

\* the decoded entry with the entry's revision: lines 66-72
EntrySchema(entry) ==
    [Unmarshal(entry.value, ZeroSchema).schema EXCEPT !.Revision = entry.revision]

\* a loop that returns at the first entry it cannot decode
WatchReceiveReturnOnError(key) ==
    LET entry == Head(feed[key])
    IN  /\ ~fatal
        /\ watchPc = "select"
        /\ ~initMarker
        /\ feed[key] # << >>
        /\ feed' = [feed EXCEPT ![key] = Tail(@)]
        /\ taken' = [taken EXCEPT ![key] = Append(@, entry)]
        /\ IF Unmarshal(entry.value, ZeroSchema).err # ""
           THEN watchPc' = "done" /\ UNCHANGED watchSchema
           ELSE /\ watchPc' = "lock"
                /\ watchSchema' = EntrySchema(entry)
        /\ UNCHANGED <<initMarker, schemas, cancelled, fatal, getRace>>
        /\ watchUnchanged

\* case entry := <-watcher.Updates(), to the call of reg.schemasMu.Lock()
WatchReceive(key) ==
    LET entry == Head(feed[key])
    IN  /\ ~fatal
        /\ watchPc = "select"
        /\ ~initMarker
        /\ feed[key] # << >>
        /\ feed' = [feed EXCEPT ![key] = Tail(@)]
        /\ taken' = [taken EXCEPT ![key] = Append(@, entry)]
        /\ IF Unmarshal(entry.value, ZeroSchema).err # ""
           THEN UNCHANGED <<watchPc, watchSchema>>
           ELSE /\ watchPc' = "lock"
                /\ watchSchema' = EntrySchema(entry)
        /\ UNCHANGED <<initMarker, schemas, cancelled, fatal, getRace>>
        /\ watchUnchanged

\* ValidatePayload holds the read lock from its RLock to its return, where the
\* deferred RUnlock runs
ReadLockHeld == valPc \in {"scan", "send"}

\* reg.schemasMu.Lock() returns: no reader holds the lock.  The assignment to
\* the map begins; a GetSchema that is reading the map now races with it.
WatchLock ==
    /\ ~fatal
    /\ watchPc = "lock"
    /\ ~ReadLockHeld
    /\ watchPc' = "writing"
    /\ getRace' = IF getPc = "reading" /\ ~getRace.raced
                  THEN [raced |-> TRUE,
                        old |-> IF getName \in DOMAIN schemas THEN schemas[getName] ELSE NoSchema,
                        new |-> watchSchema]
                  ELSE getRace
    /\ UNCHANGED <<feed, initMarker, schemas, watchSchema, cancelled, fatal, taken>>
    /\ watchUnchanged

\* a map that keeps the written entry alone
StoreSchemaOnly(map, name, schema) == [n \in {name} |-> schema]

\* what reg.schemas[name] = schema makes of the map
StoreSchema(map, name, schema) ==
    [n \in DOMAIN map \cup {name} |-> IF n = name THEN schema ELSE map[n]]

\* reg.schemas[schema.Name] = schema; reg.schemasMu.Unlock()
WatchStore ==
    /\ ~fatal
    /\ watchPc = "writing"
    /\ schemas' = StoreSchema(schemas, watchSchema.Name, watchSchema)
    /\ watchPc' = "select"
    /\ watchSchema' = NoSchema
    /\ UNCHANGED <<feed, initMarker, cancelled, fatal, getRace, taken>>
    /\ watchUnchanged

\* the context given to Watch is cancelled
Cancel ==
    /\ ~fatal
    /\ ~cancelled
    /\ events < MaxEvents
    /\ events' = events + 1
    /\ cancelled' = TRUE
    /\ UNCHANGED <<store, seq, feed, initMarker, schemas, watchPc, watchSchema, fatal,
                   getPc, getName, getSeq, getRace, getReply, valPc, valMsg, valOrder, valSchema, valOp,
                   published, replied, crudReply, taken, matchVars>>

\* case <-c.Done(): return.  select takes any case that is ready.
WatchDone ==
    /\ ~fatal
    /\ watchPc = "select"
    /\ cancelled
    /\ watchPc' = "done"
    /\ UNCHANGED <<feed, initMarker, schemas, watchSchema, cancelled, fatal, getRace, taken>>
    /\ watchUnchanged

(***************************************************************************)
(* GetSchema: reads reg.schemas without taking reg.schemasMu.  A read that *)
(* overlaps the Watch goroutine's assignment to the map is a data race:    *)
(* the runtime may throw, or the read may return anything the two records  *)
(* involved can be mixed into.                                             *)
(***************************************************************************)
getUnchanged ==
    UNCHANGED <<store, seq, feed, initMarker, schemas, watchPc, watchSchema, cancelled,
                valPc, valMsg, valOrder, valSchema, valOp, published, replied, crudReply,
                taken, matchVars>>

Lookup(map, name) == IF name \in DOMAIN map THEN map[name] ELSE NoSchema

GetBegin(name) ==
    /\ ~fatal
    /\ getPc = "idle"
    /\ events < MaxEvents
    /\ events' = events + 1
    /\ getPc' = "reading"
    /\ getName' = LastToken(RequestSubject("GET", name))
    /\ getSeq' = seq
    /\ getRace' = IF watchPc = "writing"
                  THEN [raced |-> TRUE, old |-> Lookup(schemas, name), new |-> watchSchema]
                  ELSE NoRace
    /\ UNCHANGED <<getReply, fatal>>
    /\ getUnchanged

GetResponse(found) ==
    IF found = NoSchema THEN Error("404", "Not found") ELSE RespondJSON(found)

\* the records a read that races with the write of new over old may return:
\* nothing, either record, or the strings of one with the revision of the other
RacyReads(old, new) ==
    LET o == IF old = NoSchema THEN ZeroSchema ELSE old
    IN  {NoSchema, o, new, [o EXCEPT !.Revision = new.Revision],
         [new EXCEPT !.Revision = o.Revision]}

GetEnd ==
    /\ ~fatal
    /\ getPc = "reading"
    /\ getPc' = "idle"
    /\ IF ~getRace.raced
       THEN /\ getReply' = GetResponse(Lookup(schemas, getName))
            /\ fatal' = FALSE
       ELSE \/ /\ fatal' = TRUE
               /\ UNCHANGED getReply
            \/ /\ fatal' = FALSE
               /\ \E found \in RacyReads(getRace.old, getRace.new) :
                     getReply' = GetResponse(found)
    /\ getName' = ""
    /\ getSeq' = 0
    /\ getRace' = NoRace
    /\ UNCHANGED events
    /\ getUnchanged

(***************************************************************************)
(* ValidatePayload: holds reg.schemasMu.RLock() from its first line to its *)
(* return (the deferred RUnlock).                                          *)
(***************************************************************************)
valUnchanged ==
    UNCHANGED <<store, seq, feed, initMarker, schemas, watchPc, watchSchema, cancelled,
                fatal, getPc, getName, getSeq, getRace, getReply, crudReply, taken,
                matchVars>>

\* the tokens of the routing prefix $SCHEMA.VALIDATE: parts[2:]
PrefixTokens == 2

\* strings.Join(parts[2:], ".")
GovernedSubject(inbound) ==
    Join(SubSeq(Split(inbound), PrefixTokens + 1, Len(Split(inbound))))

\* msg.Header.Set(key, value)
HeaderSet(header, key, value) ==
    [k \in DOMAIN header \cup {key} |-> IF k = key THEN value ELSE header[k]]

\* the message with the revision of a zero Schema
ForwardMsgZeroRevision(m, subject, schema) ==
    [Subject |-> subject,
     Reply |-> m.Reply,
     Data |-> m.Data,
     Header |-> HeaderSet(HeaderSet(HeaderSet(HeaderSet(HeaderSet(m.Header,
                   "Schema-Name", schema.Name),
                   "Schema-Revision", FormatUint(0)),
                   "Schema-Subject", schema.Subject),
                   "Schema-Type", schema.Type),
                   "Schema-Validated", "true")]

\* the message of lines 196-207
ForwardMsg(m, subject, schema) ==
    [Subject |-> subject,
     Reply |-> m.Reply,
     Data |-> m.Data,
     Header |-> HeaderSet(HeaderSet(HeaderSet(HeaderSet(HeaderSet(m.Header,
                   "Schema-Name", schema.Name),
                   "Schema-Revision", FormatUint(schema.Revision)),
                   "Schema-Subject", schema.Subject),
                   "Schema-Type", schema.Type),
                   "Schema-Validated", "true")]

\* a payload of m.Respond: an error text and, for %q, the subject it quotes
ErrorData(text, subject) == [text |-> text, subject |-> subject]

NoSchemaFound(subject) == ErrorData("could not find schema for subject", subject)

ErrPublish == "nats: connection closed"

\* a scan that takes every cached schema as matching
MatchingAny(subject) == DOMAIN schemas

\* the names whose cached pattern matches
Matching(subject) == {n \in DOMAIN schemas : SubjectsMatch(subject, schemas[n].Subject)}

\* range reg.schemas: Go fixes no iteration order for a map, the loop may meet
\* the names in any order
Orders(names) ==
    {order \in [1..Cardinality(names) -> names] :
        \A i, j \in 1..Cardinality(names) : order[i] = order[j] => i = j}

\* the first name of order that is in names
RECURSIVE FirstIn(_, _)
FirstIn(order, names) ==
    IF Head(order) \in names THEN Head(order) ELSE FirstIn(Tail(order), names)

ValidateBegin(m) ==
    /\ ~fatal
    /\ valPc = "idle"
    /\ watchPc # "writing"
    /\ events < MaxEvents
    /\ events' = events + 1
    /\ valPc' = "scan"
    /\ valMsg' = m
    /\ valOrder' \in Orders(DOMAIN schemas)
    /\ valSchema' = NoSchema
    /\ valOp' = NoOp
    /\ published' = << >>
    /\ replied' = << >>
    /\ valUnchanged

\* a handler that forwards without looking at the validator's answer
DecideForward(m, subject, schema) ==
    [call |-> "PublishMsg", msg |-> ForwardMsg(m, subject, schema)]

\* the schema the scan selects decides the request
Decide(m, subject, schema) ==
    IF validate(m.Data, schema) # ""
    THEN [call |-> "Respond", data |-> ErrorData(validate(m.Data, schema), << >>)]
    ELSE [call |-> "PublishMsg", msg |-> ForwardMsg(m, subject, schema)]

\* a scan that goes on to the other matching schemas when the payload is
\* invalid under one, and forwards when any of them accepts it
ValidateScanTryAll ==
    LET subject == GovernedSubject(valMsg.Subject)
        accepting == {n \in Matching(subject) : validate(valMsg.Data, schemas[n]) = ""}
    IN  /\ ~fatal
        /\ valPc = "scan"
        /\ valPc' = "send"
        /\ IF Matching(subject) = {}
           THEN /\ valSchema' = NoSchema
                /\ valOp' = [call |-> "Respond", data |-> NoSchemaFound(subject)]
           ELSE LET n == FirstIn(valOrder, IF accepting = {} THEN Matching(subject)
                                                              ELSE accepting)
                IN  /\ valSchema' = schemas[n]
                    /\ valOp' = Decide(valMsg, subject, schemas[n])
        /\ valOrder' = << >>
        /\ UNCHANGED <<valMsg, published, replied, events>>
        /\ valUnchanged

ValidateScan ==
    LET subject == GovernedSubject(valMsg.Subject)
    IN  /\ ~fatal
        /\ valPc = "scan"
        /\ valPc' = "send"
        /\ IF Matching(subject) = {}
           THEN /\ valSchema' = NoSchema
                /\ valOp' = [call |-> "Respond", data |-> NoSchemaFound(subject)]
           ELSE LET n == FirstIn(valOrder, Matching(subject))
                IN  /\ valSchema' = schemas[n]
                    /\ valOp' = Decide(valMsg, subject, schemas[n])
        /\ valOrder' = << >>
        /\ UNCHANGED <<valMsg, published, replied, events>>
        /\ valUnchanged

\* a handler that only logs a failed republish
ValidateSendLogOnly(ok) ==
    /\ ~fatal
    /\ valPc = "send"
    /\ valPc' = "idle"
    /\ IF valOp.call = "Respond"
       THEN /\ replied' = Append(replied, valOp.data)
            /\ UNCHANGED published
       ELSE IF ok
       THEN /\ published' = Append(published, valOp.msg)
            /\ UNCHANGED replied
       ELSE UNCHANGED <<published, replied>>
    /\ UNCHANGED <<valMsg, valOrder, valSchema, valOp, events>>
    /\ valUnchanged

\* the transport call, and the return: ok is whether nc.PublishMsg succeeds
ValidateSend(ok) ==
    /\ ~fatal
    /\ valPc = "send"
    /\ valPc' = "idle"
    /\ IF valOp.call = "Respond"
       THEN /\ replied' = Append(replied, valOp.data)
            /\ UNCHANGED published
       ELSE IF ok
       THEN /\ published' = Append(published, valOp.msg)
            /\ UNCHANGED replied
       ELSE /\ replied' = Append(replied, ErrorData(ErrPublish, << >>))
            /\ UNCHANGED published
    /\ UNCHANGED <<valMsg, valOrder, valSchema, valOp, events>>
    /\ valUnchanged

(***************************************************************************)
(* The registry: NewSchemaRegistry, then Watch on an empty bucket.         *)
(***************************************************************************)
NoCall == [op |-> "none"]

Init ==
    /\ store = [k \in Names |-> NoEntry]
    /\ seq = 0
    /\ feed = [k \in Names |-> << >>]
    /\ initMarker = TRUE
    /\ schemas = [n \in {} |-> ZeroSchema]
    /\ watchPc = "select"
    /\ watchSchema = NoSchema
    /\ cancelled = FALSE
    /\ fatal = FALSE
    /\ getPc = "idle"
    /\ getName = ""
    /\ getSeq = 0
    /\ getRace = NoRace
    /\ getReply = NoReply
    /\ valPc = "idle"
    /\ valMsg = NoMsg
    /\ valOrder = << >>
    /\ valSchema = NoSchema
    /\ valOp = NoOp
    /\ published = << >>
    /\ replied = << >>
    /\ events = 0
    /\ crudReply = NoCall
    /\ taken = [k \in Names |-> << >>]
    /\ mLiteral = << >>
    /\ mWildcard = << >>
    /\ mDone = FALSE
    /\ mResult = FALSE

Next ==
    \/ \E name \in Names, data \in RequestData, fail \in BOOLEAN : RegisterSchema(name, data, fail)
    \/ \E name \in Names, data \in RequestData, fail \in BOOLEAN : UpdateSchema(name, data, fail)
    \/ \E name \in Names, fail \in BOOLEAN : UnregisterSchema(name, fail)
    \/ WatchInitialDone
    \/ \E key \in Names : WatchReceive(key)
    \/ WatchLock
    \/ WatchStore
    \/ Cancel
    \/ WatchDone
    \/ \E name \in Names : GetBegin(name)
    \/ GetEnd
    \/ \E m \in Msgs : ValidateBegin(m)
    \/ ValidateScan
    \/ \E ok \in BOOLEAN : ValidateSend(ok)

Spec == Init /\ [][Next]_vars

(***************************************************************************)
(* The matcher on its own: SubjectsMatch applied to every literal subject  *)
(* and every pattern of at most MaxTokens tokens.                          *)
(***************************************************************************)
LiteralTokens == {"foo", "Foo", "bar"}
PatternTokens == LiteralTokens \cup {"*", ">"}

TokenSeqs(tokens) == UNION {[1..n -> tokens] : n \in 1..MaxTokens}

MatchInit ==
    /\ store = [k \in Names |-> NoEntry]
    /\ seq = 0
    /\ feed = [k \in Names |-> << >>]
    /\ initMarker = TRUE
    /\ schemas = [n \in {} |-> ZeroSchema]
    /\ watchPc = "select"
    /\ watchSchema = NoSchema
    /\ cancelled = FALSE
    /\ fatal = FALSE
    /\ getPc = "idle"
    /\ getName = ""
    /\ getSeq = 0
    /\ getRace = NoRace
    /\ getReply = NoReply
    /\ valPc = "idle"
    /\ valMsg = NoMsg
    /\ valOrder = << >>
    /\ valSchema = NoSchema
    /\ valOp = NoOp
    /\ published = << >>
    /\ replied = << >>
    /\ events = 0
    /\ crudReply = NoCall
    /\ taken = [k \in Names |-> << >>]
    /\ mLiteral \in {Join(t) : t \in TokenSeqs(LiteralTokens)}
    /\ mWildcard \in {Join(t) : t \in TokenSeqs(PatternTokens)}
    /\ mDone = FALSE
    /\ mResult = FALSE

MatchCall ==
    /\ ~mDone
    /\ mDone' = TRUE
    /\ mResult' = SubjectsMatch(mLiteral, mWildcard)
    /\ UNCHANGED <<mLiteral, mWildcard, regVars>>

MatchNext == MatchCall

MatchSpec == MatchInit /\ [][MatchNext]_vars

(***************************************************************************)
(* Properties of the validation handler.                                   *)
(***************************************************************************)
\* a validation request has been taken and the handler has returned
ValidationDone == valPc = "idle" /\ valMsg # NoMsg

\* the inbound subject without the chunks of "$SCHEMA.VALIDATE."
Governed(m) == SubSeq(m.Subject, 5, Len(m.Subject))

AuditKeys ==
    {"Schema-Name", "Schema-Revision", "Schema-Subject", "Schema-Type", "Schema-Validated"}

\* C1: a request whose payload the validator rejects under the schema the scan
\* selected is never republished; its only effect is one reply to the caller,
\* the validator's error text, which carries no headers.
C1_RejectedNotForwarded ==
    (valSchema # NoSchema /\ validate(valMsg.Data, valSchema) # "") =>
        /\ published = << >>
        /\ valPc # "idle" => replied = << >>
        /\ valPc = "send" => valOp.call = "Respond"
        /\ valPc = "idle" =>
              /\ replied = <<ErrorData(validate(valMsg.Data, valSchema), << >>)>>
              /\ "Header" \notin DOMAIN replied[1]

C1_Witness ==
    /\ ValidationDone
    /\ valSchema # NoSchema
    /\ validate(valMsg.Data, valSchema) # ""
    /\ Len(replied) = 1

\* the message a valid request is to be republished as, from the cache record
\* filed under name
Audited(msg, name) ==
    /\ name \in DOMAIN schemas
    /\ msg.Header["Schema-Name"] = name
    /\ msg.Header["Schema-Name"] = schemas[name].Name
    /\ msg.Header["Schema-Revision"] = FormatUint(schemas[name].Revision)
    /\ msg.Header["Schema-Subject"] = schemas[name].Subject
    /\ msg.Header["Schema-Type"] = schemas[name].Type
    /\ msg.Header["Schema-Validated"] = "true"

Republished(msg, m) ==
    /\ msg.Subject = Governed(m)
    /\ msg.Data = m.Data
    /\ msg.Reply = m.Reply
    /\ DOMAIN msg.Header = DOMAIN m.Header \cup AuditKeys
    /\ \A k \in DOMAIN m.Header \ AuditKeys : msg.Header[k] = m.Header[k]

ValidSelected == valSchema # NoSchema /\ validate(valMsg.Data, valSchema) = ""

\* C2 as stated: every request whose payload is valid under the selected schema
\* ends with the payload republished exactly once.
C2_Original ==
    (ValidationDone /\ ValidSelected) => Len(published) = 1

\* C2 as amended: for a request whose payload is valid under the selected
\* schema the handler calls PublishMsg once, with the original payload, reply
\* target and headers on the governed subject and the five audit headers of one
\* cache record, its revision the one cached under that name while the handler
\* holds the read lock; the message is republished exactly once when that call
\* succeeds, and when it fails nothing is republished and the caller gets the
\* transport error.
C2_ValidForwardedOnce ==
    ValidSelected =>
        /\ valPc # "idle" => published = << >> /\ replied = << >>
        /\ valPc = "send" =>
              /\ valOp.call = "PublishMsg"
              /\ Republished(valOp.msg, valMsg)
              /\ Audited(valOp.msg, valSchema.Name)
              /\ schemas[valSchema.Name] = valSchema
        /\ valPc = "idle" =>
              \/ published = <<valOp.msg>> /\ replied = << >>
              \/ published = << >> /\ replied = <<ErrorData(ErrPublish, << >>)>>

C2_Witness ==
    /\ ValidationDone
    /\ ValidSelected
    /\ Len(published) = 1
    /\ published[1].Header["Schema-Revision"] = "2"
    /\ "Trace-Id" \in DOMAIN published[1].Header

NoPatternMatches(subject) ==
    \A n \in DOMAIN schemas : ~SubjectsMatch(subject, schemas[n].Subject)

\* C3: a request whose governed subject no cached pattern matches gets the
\* NoSchemaFound text on its reply target and nothing is republished,
\* whatever its payload.
C3_NoSchemaFound ==
    /\ (valPc = "scan" /\ NoPatternMatches(Governed(valMsg))) =>
          published = << >> /\ replied = << >>
    /\ (valPc = "send" /\ NoPatternMatches(Governed(valMsg))) =>
          /\ valOp = [call |-> "Respond", data |-> NoSchemaFound(Governed(valMsg))]
          /\ valSchema = NoSchema
          /\ published = << >> /\ replied = << >>
    /\ (ValidationDone /\ valSchema = NoSchema) =>
          /\ published = << >>
          /\ replied = <<NoSchemaFound(Governed(valMsg))>>

C3_Witness ==
    /\ ValidationDone
    /\ valSchema = NoSchema
    /\ DOMAIN schemas # {}
    /\ replied = <<NoSchemaFound(<<"letters", Dot, "foobar">>)>>

(***************************************************************************)
(* Properties of the cache and of the Registration handlers.               *)
(***************************************************************************)
\* C4: no Get handler and no validation handler reads reg.schemas while the
\* Watch goroutine is inside its write of an entry.
C4_ReadersExcludeWriter ==
    ~(watchPc = "writing" /\ (getPc = "reading" \/ valPc # "idle"))

\* the entries Watch has taken are all applied or skipped
WatchIdle == watchPc \in {"select", "done"}

\* C5: once the Watch loop has taken the delete marker of a name as the last
\* entry of that name, the cache holds no entry for the name.
C5_DeletedDropped ==
    \A k \in Names :
        (WatchIdle /\ taken[k] # << >> /\ taken[k][Len(taken[k])].op = "DEL") =>
            k \notin DOMAIN schemas

(***************************************************************************)
(* Properties of the Registration handlers: a step of the handler op for   *)
(* name is a step that takes a request and leaves its response in          *)
(* crudReply.                                                              *)
(***************************************************************************)
IsCrud(op, name) ==
    /\ events' = events + 1
    /\ getPc' = getPc
    /\ valPc' = valPc
    /\ cancelled' = cancelled
    /\ crudReply'.op = op
    /\ crudReply'.name = name

Conflict == Error("500", ErrKeyExists)
StorageFailure == Error("500", ErrStorage)

C9_RevisionMonotonic ==
    [][\A n \in DOMAIN schemas :
          /\ n \in DOMAIN schemas'
          /\ schemas'[n].Revision >= schemas[n].Revision]_vars

C9_Witness ==
    \E n \in DOMAIN schemas :
        /\ Len(taken[n]) = 2
        /\ taken[n][1].op = "PUT"
        /\ taken[n][2].op = "PUT"
        /\ WatchIdle
        /\ schemas[n].Revision = taken[n][2].revision

\* the names of which Watch has taken an entry
TakenNames == {k \in Names : taken[k] # << >>}

\* C10: when the running Watch loop has taken and applied N entries, all
\* decodable writes and of N distinct names, the cache holds exactly those N
\* names, each with the schema of its entry under the revision the store gave
\* that write.
C10_Convergence ==
    (watchPc = "select"
        /\ \A k \in TakenNames : Len(taken[k]) = 1 /\ taken[k][1].op = "PUT") =>
        /\ DOMAIN schemas = TakenNames
        /\ \A k \in TakenNames :
              /\ schemas[k].Revision = taken[k][1].revision
              /\ schemas[k].Name = k
              /\ [schemas[k] EXCEPT !.Revision = 0]
                    = [Unmarshal(taken[k][1].value, ZeroSchema).schema
                          EXCEPT !.Revision = 0]

C10_Witness ==
    /\ watchPc = "select"
    /\ ~cancelled
    /\ TakenNames = Names
    /\ \A k \in Names : Len(taken[k]) = 1 /\ taken[k][1].op = "PUT"
    /\ DOMAIN schemas = Names
    /\ schemas["my_cool_schema"].Revision = 2

(***************************************************************************)
(* Properties of the cache against the writes the store committed.  Every  *)
(* committed write of a key is an entry of the feed of the key, pending in *)
(* feed or taken by Watch.                                                 *)
(***************************************************************************)
RECURSIVE SeqRange(_)
SeqRange(s) == IF s = << >> THEN {} ELSE {Head(s)} \cup SeqRange(Tail(s))

\* the writes of a value the store committed under key
Committed(key) == {e \in SeqRange(taken[key] \o feed[key]) : e.op = "PUT"}

\* C11: every cache entry equals a write the store committed under the name
\* of the entry: its subject, kind and body are those of the committed value
\* and its revision is the one the store gave that write, not the revision
\* the body of a request carried.
C11_CacheIsCommittedWrite ==
    \A n \in DOMAIN schemas :
        \E e \in Committed(n) :
            /\ e.key = n
            /\ e.revision \in 1..seq
            /\ schemas[n].Revision = e.revision
            /\ schemas[n].Subject = e.value.doc["subject"]
            /\ schemas[n].Type = e.value.doc["type"]
            /\ schemas[n].Body = e.value.doc["body"]
            /\ e.revision = store[n].revision => e = store[n]

C11_Witness ==
    \E n \in DOMAIN schemas :
        /\ crudReply.name = n
        /\ crudReply.reply.kind = "json"
        /\ crudReply.data = JsonBytes(StringsDoc)
        /\ store[n].value.doc["revision"] = ClientRevision
        /\ schemas[n].Body = "string"
        /\ schemas[n].Revision = 2
        /\ store[n].revision = 2

\* C12: once the context of Watch is cancelled, reg.schemas never changes
\* again, whether feed entries are pending, arrive later or have already been
\* taken by the loop.
C12_NoMutationAfterCancel == [][cancelled => schemas' = schemas]_vars

\* the entry Watch takes in a step that takes an entry of key
TakenEntry(key) == taken'[key][Len(taken'[key])]

\* C13: a feed entry that cannot be decoded and the marker that ends the
\* initial snapshot each leave reg.schemas unchanged and leave the loop at its
\* select; every decodable entry the loop takes, after such an event too,
\* goes on to the write, so that whenever the loop is back at its select
\* every name of which it took a decodable entry is cached with a revision at
\* least that of the entry.
C13_SkippedEventsKeepLoop ==
    /\ [][/\ \A k \in Names :
                (taken'[k] # taken[k]) =>
                    IF Unmarshal(TakenEntry(k).value, ZeroSchema).err # ""
                    THEN schemas' = schemas /\ watchPc' = "select"
                              /\ watchSchema' = NoSchema
                    ELSE schemas' = schemas /\ watchPc' = "lock"
                              /\ watchSchema'.Revision = TakenEntry(k).revision
          /\ (initMarker /\ ~initMarker') =>
                schemas' = schemas /\ watchPc' = "select"
         ]_vars
    /\ [](watchPc = "select" =>
            \A k \in Names : \A i \in 1..Len(taken[k]) :
                taken[k][i].op = "PUT" =>
                    /\ k \in DOMAIN schemas
                    /\ schemas[k].Revision >= taken[k][i].revision)

C13_Witness ==
    \E k \in Names :
        /\ watchPc = "select"
        /\ ~initMarker
        /\ Len(taken[k]) = 2
        /\ taken[k][1].op = "DEL"
        /\ taken[k][2].op = "PUT"
        /\ k \in DOMAIN schemas
        /\ schemas[k].Revision = taken[k][2].revision

NotFound == Error("404", "Not found")

\* the last Registration request was a Register of name that succeeded, the
\* entry of its write is still pending in the feed, and the Get request in
\* progress arrived after that write
RegisteredNotConsumed(name) ==
    /\ crudReply.op = "REGISTER"
    /\ crudReply.name = name
    /\ crudReply.reply.kind = "json"
    /\ \E i \in 1..Len(feed[name]) :
          feed[name][i].revision = crudReply.reply.data.doc["revision"]
    /\ getSeq >= crudReply.reply.data.doc["revision"]

\* C14: no Register, Update, Unregister or Get changes reg.schemas: the only
\* step that changes it is the Watch loop's write of a feed entry; and a Get
\* that arrives after a successful Register and returns before the entry of
\* the Register is taken answers NotFound.
C14_OnlyWatchWritesCache ==
    [][/\ schemas' # schemas =>
             /\ watchPc = "writing" /\ watchPc' = "select"
             /\ events' = events
             /\ getPc' = getPc
       /\ (getPc = "reading" /\ getPc' = "idle" /\ RegisteredNotConsumed(getName)) =>
             /\ ~fatal'
             /\ getReply' = NotFound
      ]_vars

\* C15: a Register or an Update that succeeds writes the store key that is
\* the last token of the request subject and no other key, and the record it
\* stores and the record it returns carry that token as their name, whatever
\* name the body of the request carries; hence every cache entry is filed
\* under the key of a feed entry Watch took and under the name its record
\* carries.
C15_NameIsLastToken ==
    /\ [][\A name \in Names : \A op \in {"REGISTER", "UPDATE"} :
            (IsCrud(op, name) /\ crudReply'.reply.kind = "json") =>
               LET key == LastToken(RequestSubject(op, name))
               IN  /\ store'[key].op = "PUT"
                   /\ store'[key].key = key
                   /\ store'[key].revision = seq' /\ seq' = seq + 1
                   /\ store'[key].value.doc["name"] = key
                   /\ crudReply'.reply.data.doc["name"] = key
                   /\ \A other \in Names \ {key} : store'[other] = store[other]
         ]_vars
    /\ [](\A n \in DOMAIN schemas :
             /\ schemas[n].Name = n
             /\ \E e \in SeqRange(taken[n]) :
                   /\ e.key = n
                   /\ e.op = "PUT"
                   /\ e.value.doc["name"] = n
                   /\ e.revision = schemas[n].Revision)

C15_Witness ==
    \E n \in DOMAIN schemas :
        /\ crudReply.op \in {"REGISTER", "UPDATE"}
        /\ crudReply.name = n
        /\ crudReply.data = JsonBytes(StringsDoc)
        /\ crudReply.data.doc["name"] = "spoofed"
        /\ crudReply.reply.kind = "json"
        /\ crudReply.reply.data.doc["name"] = n
        /\ store[n].value.doc["name"] = n
        /\ schemas[n].Name = n
        /\ schemas[n].Body = "string"

\* C16: while a validation handler is in a transport call, the error reply or
\* the republish, it does not hold the read lock of the cache, so that a Watch
\* loop waiting to write an entry can take the write lock.
C16_NoLockDuringTransport ==
    valPc = "send" =>
        /\ ~ReadLockHeld
        /\ watchPc = "lock" => ENABLED WatchLock

\* name is met by the range loop before every other name whose pattern
\* matches subject
FirstMatch(name, subject) ==
    \E i \in 1..Len(valOrder) :
        /\ valOrder[i] = name
        /\ SubjectsMatch(subject, schemas[name].Subject)
        /\ \A j \in 1..(i - 1) : ~SubjectsMatch(subject, schemas[valOrder[j]].Subject)

\* C18: the scan of a validation request selects the first schema, in the
\* order of the range loop, whose pattern matches the governed subject, and
\* that schema alone decides: when the payload is invalid under it the
\* handler goes to the error reply with that schema's error, also when
\* another cached schema matches and accepts the payload; when it is valid
\* the handler goes to the republish under that schema.
C18_FirstMatchDecides ==
    [][\A name \in DOMAIN schemas :
          (valPc = "scan" /\ valPc' = "send" /\ FirstMatch(name, Governed(valMsg))) =>
             /\ valSchema' = schemas[name]
             /\ validate(valMsg.Data, schemas[name]) # "" =>
                   valOp' = [call |-> "Respond",
                             data |-> ErrorData(validate(valMsg.Data, schemas[name]), << >>)]
             /\ validate(valMsg.Data, schemas[name]) = "" =>
                   /\ valOp'.call = "PublishMsg"
                   /\ valOp'.msg.Header["Schema-Name"] = name
      ]_vars

\* a request rejected under the schema met first while another cached schema
\* matches its subject and accepts its payload
C18_Witness ==
    /\ valPc = "send"
    /\ valSchema # NoSchema
    /\ valOp.call = "Respond"
    /\ \E n \in DOMAIN schemas :
          /\ n # valSchema.Name
          /\ SubjectsMatch(Governed(valMsg), schemas[n].Subject)
          /\ validate(valMsg.Data, schemas[n]) = ""

\* the same request forwarded under the schema met first while another cached
\* schema matches its subject and rejects its payload
C18_ForwardedWitness ==
    /\ valPc = "send"
    /\ valSchema # NoSchema
    /\ valOp.call = "PublishMsg"
    /\ \E n \in DOMAIN schemas :
          /\ n # valSchema.Name
          /\ SubjectsMatch(Governed(valMsg), schemas[n].Subject)
          /\ validate(valMsg.Data, schemas[n]) # ""

Tokens(subject) == Split(subject)

HasFullWildcard(pattern) == \E i \in 1..Len(Tokens(pattern)) : Tokens(pattern)[i] = ">"

\* C6: with no ">" in the pattern and more tokens in the literal than in the
\* pattern, SubjectsMatch returns false.
C6_TrailingTokensNoMatch ==
    (mDone /\ ~HasFullWildcard(mWildcard)
           /\ Len(Tokens(mLiteral)) > Len(Tokens(mWildcard))) => ~mResult

\* pattern token i admits literal token i
Admits(L, P, i) == P[i] = "*" \/ P[i] = L[i]

\* C7: a literal matches itself, every pattern made of it by putting "*" for
\* tokens, and every pattern made of a proper prefix of it, with or without
\* "*" for tokens, followed by ">"; and it matches no pattern that has, before
\* any ">", a literal token other than the literal's token at that place.
C7_MatchCases ==
    LET L == Tokens(mLiteral)
        P == Tokens(mWildcard)
    IN  mDone =>
          /\ mLiteral = mWildcard => mResult
          /\ (Len(P) = Len(L) /\ \A i \in 1..Len(P) : Admits(L, P, i)) => mResult
          /\ (Len(P) <= Len(L) /\ P[Len(P)] = ">"
                 /\ \A i \in 1..(Len(P) - 1) : Admits(L, P, i)) => mResult
          /\ (\E i \in 1..Len(P) :
                 /\ i <= Len(L)
                 /\ P[i] \notin {"*", ">"}
                 /\ P[i] # L[i]
                 /\ \A j \in 1..(i - 1) : P[j] # ">") => ~mResult

C7_Witness ==
    /\ mDone
    /\ mResult
    /\ mLiteral = <<"foo", Dot, "bar", Dot, "Foo">>
    /\ mWildcard = <<"*", Dot, "bar", Dot, ">">>

\* the position of the first ">" of a pattern that has one
FirstFullWildcard(P) ==
    CHOOSE i \in 1..Len(P) : P[i] = ">" /\ \A j \in 1..(i - 1) : P[j] # ">"

\* C17: when every pattern token before the first ">" admits the literal's
\* token at its place and the literal has a token at the place of that ">",
\* SubjectsMatch returns true, whatever tokens follow the ">" in the pattern;
\* and whatever the literal, the result is the one of the pattern cut after
\* its first ">": "foo.>.bar" matches what "foo.>" matches.
C17_FullWildcardAnywhere ==
    LET L == Tokens(mLiteral)
        P == Tokens(mWildcard)
        g == FirstFullWildcard(P)
    IN  (mDone /\ HasFullWildcard(mWildcard)) =>
          /\ (g <= Len(L) /\ \A j \in 1..(g - 1) : Admits(L, P, j)) => mResult
          /\ mResult = SubjectsMatch(mLiteral, Join(SubSeq(P, 1, g)))

C17_Witness ==
    /\ mDone
    /\ mResult
    /\ mLiteral = <<"foo", Dot, "Foo">>
    /\ mWildcard = <<"foo", Dot, ">", Dot, "bar">>

====
